---- MODULE Spec2Model ----
(***************************************************************************)
(* Model of script.js (flight PTY -> MVD countdown page).                  *)
(*                                                                         *)
(* Instants are integers (milliseconds on an abstract origin).  A JS Date  *)
(* is a record [nan, t]: nan = TRUE is "Invalid Date", whose getTime() is  *)
(* NaN.  A JS number that may be NaN is modelled the same way, and a       *)
(* fractional number (the progress percentage) is an exact rational        *)
(* [num, den] with den > 0, NaN being 0/0.  Every comparison with NaN is   *)
(* false, Math.max/Math.min with a NaN operand give NaN.                   *)
(*                                                                         *)
(* The wall clock (Date.now()) is non-decreasing.  One tick reads it up to *)
(* seven times; the reads of one tick are a non-decreasing 7-tuple.        *)
(***************************************************************************)
EXTENDS Integers, Sequences, FiniteSets, TLC

\* ---------------------------------------------------------------- bounds
MaxInstant == 4      \* parseable configuration instants are 1..MaxInstant
MaxStep    == 2      \* largest clock advance between two timer firings
MaxDrift   == 1      \* largest clock advance during one tick
MaxDays    == 2      \* largest number of whole days fed to msADHMS

MaxClock == MaxInstant + 1

\* salidaMvd is only tested for presence and never read afterwards, so the
\* unparseable case is drawn for salidaPty and llegadaMvd alone.
VARIABLES
  cfg,           \* the three data-* attributes of #flightData
  surfaces,      \* the display elements present in the page
  pc,            \* "loading" | "disabled" | "running"
  warned,        \* console.warn was called
  vuelo,         \* the Vuelo instance (<<>> before construction)
  clock,         \* last value returned by Date.now()
  estadoPrevio,  \* closure variable of the DOMContentLoaded handler
  dom,           \* what the display elements currently show
  ticks,         \* number of ticks run so far
  obs,           \* what the last tick read, computed and triggered
  msIn,          \* argument of the last msADHMS conversion
  unitsOut       \* its result (<<>> before the first conversion)

vars == <<cfg, surfaces, pc, warned, vuelo, clock, estadoPrevio, dom, ticks,
          obs, msIn, unitsOut>>

\* ------------------------------------------------------- numbers and NaN
Num(n) == [nan |-> FALSE, t |-> n]
NaN    == [nan |-> TRUE,  t |-> 0]

Rat(n, d) == [num |-> n, den |-> d]
RatNaN == Rat(0, 0)
RatIsNaN(p) == p.den = 0
RatLeq(p, q) == ~RatIsNaN(p) /\ ~RatIsNaN(q) /\ p.num * q.den <= q.num * p.den
RatEq(p, q)  == ~RatIsNaN(p) /\ ~RatIsNaN(q) /\ p.num * q.den = q.num * p.den

Min(a, b) == IF a < b THEN a ELSE b
Max(a, b) == IF a > b THEN a ELSE b

\* ------------------------------------------------------- configuration
Missing == [kind |-> "missing", t |-> 0]   \* attribute absent or empty
Bad     == [kind |-> "bad",     t |-> 0]   \* non-empty, not a date
Iso(n)  == [kind |-> "iso",     t |-> n]   \* ISO string of instant n

CfgValues == {Missing, Bad} \cup {Iso(n) : n \in 1..MaxInstant}

\* !str in JavaScript
Falsy(str) == str.kind = "missing"

\* new Date(str)
NewDate(str) == IF str.kind = "iso" THEN Num(str.t) ELSE NaN

\* ------------------------------------------------------------- Vuelo
NewVuelo(salidaMvd, salidaPty, llegadaMvd) ==
  [salidaMvd  |-> NewDate(salidaMvd),
   salidaPty  |-> NewDate(salidaPty),
   llegadaMvd |-> NewDate(llegadaMvd)]

\* objetivo.getTime() - Date.now()
msHasta(objetivo, now) ==
  IF objetivo.nan THEN NaN ELSE Num(objetivo.t - now)

\* now < d.getTime()  and  now >= d.getTime()
LtDate(now, d)  == ~d.nan /\ now < d.t
GeqDate(now, d) == ~d.nan /\ now >= d.t

\* progreso with "total < 0" for "total <= 0"
progresoSinIgual(v, now) ==
  LET totalNaN == v.llegadaMvd.nan \/ v.salidaPty.nan
      total    == v.llegadaMvd.t - v.salidaPty.t
      trans    == now - v.salidaPty.t
  IN  IF ~totalNaN /\ total < 0 THEN Rat(100, 1)
      ELSE IF totalNaN THEN RatNaN
      ELSE Rat(Min(Max(trans * 100, 0), 100 * total), total)

\* progreso without the Math.max(pct, 0)
progresoSinMax(v, now) ==
  LET totalNaN == v.llegadaMvd.nan \/ v.salidaPty.nan
      total    == v.llegadaMvd.t - v.salidaPty.t
      trans    == now - v.salidaPty.t
  IN  IF ~totalNaN /\ total <= 0 THEN Rat(100, 1)
      ELSE IF totalNaN THEN RatNaN
      ELSE Rat(Min(trans * 100, 100 * total), total)

progreso(v, now) ==
  LET totalNaN == v.llegadaMvd.nan \/ v.salidaPty.nan
      total    == v.llegadaMvd.t - v.salidaPty.t
      trans    == now - v.salidaPty.t
  IN  IF ~totalNaN /\ total <= 0 THEN Rat(100, 1)
      ELSE IF totalNaN THEN RatNaN
      ELSE Rat(Min(Max(trans * 100, 0), 100 * total), total)

\* estado with "now <= salidaPty" for "now < salidaPty"
estadoMenorIgual(v, now) ==
  IF ~v.salidaPty.nan /\ now <= v.salidaPty.t THEN "Próximo"
  ELSE IF GeqDate(now, v.salidaPty) /\ LtDate(now, v.llegadaMvd) THEN "En vuelo"
  ELSE "Llegó"

\* estado with the first comparison reversed
estadoInvertido(v, now) ==
  IF ~v.salidaPty.nan /\ now > v.salidaPty.t THEN "Próximo"
  ELSE IF GeqDate(now, v.salidaPty) /\ LtDate(now, v.llegadaMvd) THEN "En vuelo"
  ELSE "Llegó"

estado(v, now) ==
  IF LtDate(now, v.salidaPty) THEN "Próximo"
  ELSE IF GeqDate(now, v.salidaPty) /\ LtDate(now, v.llegadaMvd) THEN "En vuelo"
  ELSE "Llegó"

\* ------------------------------------------------------------- UI helpers
\* msADHMS whose hours are not reduced modulo one day
msADHMSSinModulo(ms) ==
  IF ms.nan THEN [nan |-> TRUE, d |-> 0, h |-> 0, m |-> 0, s |-> 0]
  ELSE LET seg == Max(ms.t \div 1000, 0)
       IN  [nan |-> FALSE,
            d |-> seg \div 86400,
            h |-> seg \div 3600,
            m |-> (seg % 3600) \div 60,
            s |-> seg % 60]

msADHMS(ms) ==
  IF ms.nan THEN [nan |-> TRUE, d |-> 0, h |-> 0, m |-> 0, s |-> 0]
  ELSE LET seg == Max(ms.t \div 1000, 0)
       IN  [nan |-> FALSE,
            d |-> seg \div 86400,
            h |-> (seg % 86400) \div 3600,
            m |-> (seg % 3600) \div 60,
            s |-> seg % 60]

\* x.toFixed(2), as a count of hundredths
toFixed2(p) ==
  IF RatIsNaN(p) THEN [nan |-> TRUE, dec |-> 2, val |-> 0]
  ELSE [nan |-> FALSE, dec |-> 2,
        val |-> (2 * 100 * p.num + p.den) \div (2 * p.den)]

\* a literal width such as "0%" or "100%"
Literal(n) == [nan |-> FALSE, dec |-> 0, val |-> n]

\* Math.round(x)
MathRound(p) ==
  IF RatIsNaN(p) THEN NaN ELSE Num((2 * p.num + p.den) \div (2 * p.den))

\* Math.max(0, Math.min(100, p)): NaN stays NaN
Clamp100(p) ==
  IF RatIsNaN(p) THEN RatNaN
  ELSE Rat(Min(Max(p.num, 0), 100 * p.den), p.den)

\* lo + (hi - lo) * (p / 100)
Lerp100(lo, hi, p) == Rat(100 * lo * p.den + (hi - lo) * p.num, 100 * p.den)

\* leftPct of renderAvion
AvionLeft(progresoPct) == Lerp100(10, 90, Clamp100(progresoPct))

\* leftPct / rightPct of renderNombres
NombreOffset(progresoPct) == Lerp100(12, 45, Clamp100(progresoPct))

\* t of the map marker: Math.min(Math.max(prog / 100, 0), 1)
MarkerT(prog) ==
  IF RatIsNaN(prog) THEN RatNaN
  ELSE Rat(Min(Max(prog.num, 0), 100 * prog.den), 100 * prog.den)

\* ------------------------------------------------------------- the page
AllSurfaces == {"contadorSalida", "contadorLlegada", "estadoVuelo",
                "progresoVuelo", "plane", "nameLeft", "nameRight",
                "planeMarker", "factProg", "arrivalHeart"}

\* pages considered: the complete one, and each page lacking one element
Pages == {AllSurfaces} \cup {AllSurfaces \ {e} : e \in AllSurfaces}

\* written: the surfaces assigned during the current (last) tick
DomInicial ==
  [contadorSalida |-> <<>>, contadorLlegada |-> <<>>,
   pillText |-> "", pillClass |-> "", barWidth |-> <<>>,
   planeLeft |-> <<>>, nameLeft |-> <<>>, nameRight |-> <<>>,
   factProg |-> <<>>, markerT |-> <<>>, heartShow |-> FALSE,
   written |-> {}]

ObsInicial ==
  [tEstado |-> 0, tProg |-> 0, estado |-> "", prevEstado |-> "",
   prog |-> RatNaN,
   estadoBar |-> "", prevEstadoBar |-> "", ding |-> FALSE, heart |-> FALSE]

\* The clock advances at most MaxDrift times during a tick: advance k is
\* first seen by read cut[k] (8: by none).  Lecturas gives the seven reads
\* of a tick whose first read is desde; they are non-decreasing.
Cortes ==
  {cut \in [1..MaxDrift -> 2..8] :
     \A k \in 1..(MaxDrift - 1) : cut[k] <= cut[k + 1]}

Lecturas(desde, cut) ==
  [i \in 1..7 |-> desde + Cardinality({k \in 1..MaxDrift : cut[k] <= i})]

\* ------------------------------------------------------------- renderers
renderContador(d, campo, t) ==
  [d EXCEPT ![campo] = <<t>>, !.written = @ \cup {campo}]

\* tick, lines 326-327: the two countdowns
Contadores(d, v, S, r) ==
  LET d1 == IF "contadorSalida" \in S
            THEN renderContador(d, "contadorSalida",
                                msADHMS(msHasta(v.salidaPty, r[1])))
            ELSE d
  IN  IF "contadorLlegada" \in S
      THEN renderContador(d1, "contadorLlegada",
                          msADHMS(msHasta(v.llegadaMvd, r[2])))
      ELSE d1

\* tick, lines 330-343: text and class of the status pill
Pill(d, v, S, est, now) ==
  IF "estadoVuelo" \notin S THEN d
  ELSE LET w == [d EXCEPT !.written = @ \cup {"estadoVuelo"}] IN
       IF LtDate(now, v.salidaPty)
       THEN [w EXCEPT !.pillClass = "pill--boarding",
                      !.pillText = "En embarque"]
       ELSE IF est = "En vuelo"
            THEN [w EXCEPT !.pillClass = "pill--en-vuelo", !.pillText = est]
            ELSE [w EXCEPT !.pillClass = "pill--arribado", !.pillText = est]

\* renderEstado reads the clock at r6 (estado) and r7 (progreso)
renderEstado(d, v, S, r6, r7) ==
  IF "estadoVuelo" \notin S \/ "progresoVuelo" \notin S THEN d
  ELSE LET est == estado(v, r6) IN
       [d EXCEPT
          !.pillText = est,
          !.barWidth =
             IF est = "Próximo" THEN <<Literal(0)>>
             ELSE IF est = "En vuelo" THEN <<toFixed2(progreso(v, r7))>>
             ELSE <<Literal(100)>>,
          !.written = @ \cup {"estadoVuelo", "progresoVuelo"}]

renderAvion(d, S, progresoPct) ==
  IF "plane" \notin S THEN d
  ELSE [d EXCEPT !.planeLeft = <<AvionLeft(progresoPct)>>,
                 !.written = @ \cup {"plane"}]

renderNombres(d, S, progresoPct) ==
  IF "nameLeft" \notin S \/ "nameRight" \notin S THEN d
  ELSE [d EXCEPT !.nameLeft  = <<NombreOffset(progresoPct)>>,
                 !.nameRight = <<NombreOffset(progresoPct)>>,
                 !.written = @ \cup {"nameLeft", "nameRight"}]

\* tick, lines 360-366: fact panel and map marker
FactYMapa(d, S, prog) ==
  LET d1 == IF "factProg" \in S
            THEN [d EXCEPT !.factProg = <<MathRound(prog)>>,
                           !.written = @ \cup {"factProg"}]
            ELSE d
  IN  IF "planeMarker" \in S
      THEN [d1 EXCEPT !.markerT = <<MarkerT(prog)>>,
                      !.written = @ \cup {"planeMarker"}]
      ELSE d1

\* ------------------------------------------------------------- tick
\* One run of tick() on Vuelo v; r[1..7] are its clock reads, in order:
\* the two msHasta, estado(), the pill's Date.now(), progreso(), and the
\* estado() and progreso() of renderEstado.
tick(v, r) ==
  LET S      == surfaces
      d0     == [dom EXCEPT !.written = {}]
      d1     == Contadores(d0, v, S, r)
      est    == estado(v, r[3])
      d2     == Pill(d1, v, S, est, r[4])
      cambio == est # estadoPrevio
      ding   == cambio /\ estadoPrevio # "null"
      heart  == cambio /\ est = "Llegó" /\ "arrivalHeart" \in S
      d3     == [d2 EXCEPT !.heartShow = IF heart THEN TRUE ELSE @]
      prog   == progreso(v, r[5])
      d4     == renderEstado(d3, v, S, r[6], r[7])
      d5     == renderAvion(d4, S, prog)
      d6     == renderNombres(d5, S, prog)
      d7     == FactYMapa(d6, S, prog)
  IN  /\ dom' = d7
      /\ estadoPrevio' = IF cambio THEN est ELSE estadoPrevio
      /\ clock' = r[7]
      /\ ticks' = ticks + 1
      /\ obs' = [tEstado |-> r[3], tProg |-> r[5],
                 estado |-> est, prevEstado |-> obs.estado, prog |-> prog,
                 estadoBar |-> IF {"estadoVuelo", "progresoVuelo"} \subseteq S
                               THEN estado(v, r[6]) ELSE "",
                 prevEstadoBar |-> obs.estadoBar,
                 ding |-> ding, heart |-> heart]

\* ------------------------------------------------------------- actions
Init ==
  /\ cfg \in [salidaMvd : {Missing, Iso(1)},
              salidaPty : CfgValues, llegadaMvd : CfgValues]
  /\ surfaces \in Pages
  /\ pc = "loading"
  /\ warned = FALSE
  /\ vuelo = <<>>
  /\ clock \in 0..MaxClock
  /\ estadoPrevio = "null"
  /\ dom = DomInicial
  /\ ticks = 0
  /\ obs = ObsInicial
  /\ msIn = 0
  /\ unitsOut = <<>>

\* DOMContentLoaded with an attribute missing: warn and return
CargaSinDatos ==
  /\ pc = "loading"
  /\ Falsy(cfg.salidaMvd) \/ Falsy(cfg.salidaPty) \/ Falsy(cfg.llegadaMvd)
  /\ warned' = TRUE
  /\ pc' = "disabled"
  /\ UNCHANGED <<cfg, surfaces, vuelo, clock, estadoPrevio, dom, ticks, obs,
                 msIn, unitsOut>>

\* DOMContentLoaded otherwise: build the Vuelo, run tick(), setInterval
Carga ==
  /\ pc = "loading"
  /\ ~(Falsy(cfg.salidaMvd) \/ Falsy(cfg.salidaPty) \/ Falsy(cfg.llegadaMvd))
  /\ vuelo' = NewVuelo(cfg.salidaMvd, cfg.salidaPty, cfg.llegadaMvd)
  /\ \E cut \in Cortes :
       LET r == Lecturas(clock, cut) IN
       /\ r[7] <= MaxClock
       /\ tick(vuelo', r)
  /\ pc' = "running"
  /\ UNCHANGED <<cfg, surfaces, warned, msIn, unitsOut>>

\* a firing of the interval timer
Tick ==
  /\ pc = "running"
  /\ \E step \in 1..MaxStep :
       /\ clock + step <= MaxClock
       /\ \E cut \in Cortes :
            LET r == Lecturas(clock + step, cut) IN
            /\ r[7] <= MaxClock
            /\ tick(vuelo, r)
  /\ UNCHANGED <<cfg, surfaces, pc, warned, vuelo, msIn, unitsOut>>

Next == CargaSinDatos \/ Carga \/ Tick

Spec == Init /\ [][Next]_vars

\* ------------------------------------------- msADHMS on its own inputs
\* durations with every carry case, up to MaxDays days, and their negatives
Duraciones ==
  LET pos == {(((d * 24 + h) * 60 + m) * 60 + s) * 1000 + r :
                d \in 0..MaxDays, h \in {0, 1, 23}, m \in {0, 1, 59},
                s \in {0, 1, 59}, r \in {0, 1, 999}}
  IN  pos \cup {0 - x : x \in pos}

InitUnits ==
  /\ cfg = [salidaMvd |-> Missing, salidaPty |-> Missing,
            llegadaMvd |-> Missing]
  /\ surfaces = AllSurfaces
  /\ pc = "loading"
  /\ warned = FALSE
  /\ vuelo = <<>>
  /\ clock = 0
  /\ estadoPrevio = "null"
  /\ dom = DomInicial
  /\ ticks = 0
  /\ obs = ObsInicial
  /\ msIn \in Duraciones
  /\ unitsOut = <<>>

Convert ==
  /\ unitsOut = <<>>
  /\ unitsOut' = <<msADHMS(Num(msIn))>>
  /\ UNCHANGED <<cfg, surfaces, pc, warned, vuelo, clock, estadoPrevio, dom,
                 ticks, obs, msIn>>

NextUnits == Convert

SpecUnits == InitUnits /\ [][NextUnits]_vars

\* ------------------------------------------------------------- properties
Valido    == vuelo # <<>> /\ ~vuelo.salidaPty.nan /\ ~vuelo.llegadaMvd.nan
BienFormado == Valido /\ vuelo.llegadaMvd.t > vuelo.salidaPty.t
Degenerado  == Valido /\ vuelo.llegadaMvd.t <= vuelo.salidaPty.t

Rank(e) == IF e = "Próximo" THEN 0 ELSE IF e = "En vuelo" THEN 1 ELSE 2

Cero == Rat(0, 1)
Cien == Rat(100, 1)

\* C1, as stated: for a schedule of two instants, the status computed at
\* instant now is Upcoming iff now < departureWaypoint, Arrived iff
\* now >= arrivalDestination, and InFlight otherwise.
C1_Original ==
  (ticks > 0 /\ Valido) =>
    LET now == obs.tEstado
        dep == vuelo.salidaPty.t
        arr == vuelo.llegadaMvd.t
    IN  /\ obs.estado \in {"Próximo", "En vuelo", "Llegó"}
        /\ (obs.estado = "Próximo") <=> (now < dep)
        /\ (obs.estado = "Llegó") <=> (now >= arr)
        /\ (obs.estado = "En vuelo") <=> (~(now < dep) /\ ~(now >= arr))

\* C1, amended: the status is exactly one of the three; Upcoming iff
\* now < departureWaypoint, InFlight iff departureWaypoint <= now <
\* arrivalDestination, Arrived otherwise (a comparison with an invalid
\* instant being false); Arrived iff now >= arrivalDestination holds for the
\* schedules with departureWaypoint <= arrivalDestination.
C1_Estado ==
  ticks > 0 =>
    LET now   == obs.tEstado
        dep   == vuelo.salidaPty
        arr   == vuelo.llegadaMvd
        antes == ~dep.nan /\ now < dep.t
        entre == ~dep.nan /\ ~arr.nan /\ dep.t <= now /\ now < arr.t
    IN  /\ obs.estado \in {"Próximo", "En vuelo", "Llegó"}
        /\ (obs.estado = "Próximo") <=> antes
        /\ (obs.estado = "En vuelo") <=> entre
        /\ (obs.estado = "Llegó") <=> (~antes /\ ~entre)
        /\ (Valido /\ dep.t <= arr.t) =>
             ((obs.estado = "Llegó") <=> (now >= arr.t))

\* C1 witness: a tick on a degenerate schedule at an instant that is both
\* before the departure and not before the arrival reports Upcoming.
C1_Witness ==
  /\ ticks > 0 /\ Degenerado
  /\ obs.tEstado < vuelo.salidaPty.t
  /\ obs.tEstado >= vuelo.llegadaMvd.t
  /\ obs.estado = "Próximo"

\* C2, as stated: a tick triggers a one-shot effect (ding or arrival heart)
\* exactly when it is not the first tick and its status differs from the
\* status of the previous tick.  Stated for well-formed schedules.
C2_Claim ==
  (ticks > 0 /\ BienFormado) =>
    ((obs.ding \/ obs.heart) <=> (ticks > 1 /\ obs.estado # obs.prevEstado))

\* C3, as stated: with a configuration instant missing or unparseable the
\* tick never runs and no surface is written.
C3_Claim ==
  (\E k \in {"salidaMvd", "salidaPty", "llegadaMvd"} : cfg[k].kind # "iso")
    => (pc # "running" /\ ticks = 0 /\ dom = DomInicial)

\* C4, as stated: after a tick every per-tick surface that is present has
\* been updated by that tick.  Stated for well-formed schedules.
C4_Claim ==
  (ticks > 0 /\ BienFormado) => (surfaces \ {"arrivalHeart"}) \subseteq dom.written

\* C5, as stated: the progress computed by a tick is in [0,100].
C5_Claim ==
  ticks > 0 => (RatLeq(Cero, obs.prog) /\ RatLeq(obs.prog, Cien))

\* C6: on a well-formed schedule the progress computed by a tick is 0 up to
\* the departure, 100 from the arrival on, 50 at the midpoint, and is never
\* lower than the progress computed by the tick before.
C6_Progreso ==
  [][(BienFormado' /\ ticks' > ticks) =>
       LET now == obs'.tProg
           dep == vuelo'.salidaPty.t
           arr == vuelo'.llegadaMvd.t
       IN  /\ now <= dep => RatEq(obs'.prog, Cero)
           /\ now >= arr => RatEq(obs'.prog, Cien)
           /\ 2 * (now - dep) = arr - dep => RatEq(obs'.prog, Rat(50, 1))
           /\ ticks > 0 => RatLeq(obs.prog, obs'.prog)]_vars

\* C6 witness: a later tick at the midpoint of a well-formed segment.
C6_Witness ==
  /\ BienFormado /\ ticks > 1
  /\ 2 * (obs.tProg - vuelo.salidaPty.t)
       = vuelo.llegadaMvd.t - vuelo.salidaPty.t
  /\ RatEq(obs.prog, Rat(50, 1))

\* C7: msADHMS(ms) gives, for ms >= 0, d,h,m,s with
\* d*86400 + h*3600 + m*60 + s = floor(ms/1000), h < 24, m < 60, s < 60 and
\* none negative; for ms < 0 it gives four zeros.
C7_Unidades ==
  unitsOut # <<>> =>
    LET u == unitsOut[1] IN
    IF msIn >= 0
    THEN /\ u.d * 86400 + u.h * 3600 + u.m * 60 + u.s = msIn \div 1000
         /\ u.d >= 0
         /\ u.h >= 0 /\ u.h < 24
         /\ u.m >= 0 /\ u.m < 60
         /\ u.s >= 0 /\ u.s < 60
    ELSE u.d = 0 /\ u.h = 0 /\ u.m = 0 /\ u.s = 0

\* C7 witness: a converted duration of at least a day with every smaller
\* unit at its maximum and a remainder of milliseconds.
C7_Witness ==
  /\ unitsOut # <<>>
  /\ msIn % 1000 = 999
  /\ unitsOut[1].d >= 1 /\ unitsOut[1].h = 23
  /\ unitsOut[1].m = 59 /\ unitsOut[1].s = 59

\* C8: along the successive clock reads the computed status never moves
\* backwards in the order Upcoming, InFlight, Arrived: not from one tick to
\* the next, and not between the two status computations of one tick.
C8_Monotono ==
  [][ticks' > ticks =>
       /\ ticks > 0 => Rank(obs'.estado) >= Rank(obs.estado)
       /\ (ticks > 0 /\ obs.estadoBar # "")
            => Rank(obs'.estado) >= Rank(obs.estadoBar)
       /\ obs'.estadoBar # ""
            => Rank(obs'.estadoBar) >= Rank(obs'.estado)]_vars

\* C8 witness: a tick that observes Arrived after a tick that observed
\* InFlight.
C8_Witness ==
  ticks > 1 /\ obs.prevEstado = "En vuelo" /\ obs.estado = "Llegó"

\* C9: on a degenerate schedule the progress is 100 at every instant, and
\* the status is Upcoming before the departure instant and Arrived from it
\* on (the raw comparisons; InFlight cannot happen).
C9_Degenerado ==
  (ticks > 0 /\ Degenerado) =>
    /\ RatEq(obs.prog, Cien)
    /\ (obs.estado = "Próximo") <=> (obs.tEstado < vuelo.salidaPty.t)
    /\ (obs.estado = "Llegó") <=> (obs.tEstado >= vuelo.salidaPty.t)
    /\ obs.estado # "En vuelo"

\* C9 witness: a tick on a schedule whose two instants are equal, before
\* that instant: progress 100 while the status is Upcoming.
C9_Witness ==
  /\ ticks > 0 /\ Degenerado
  /\ vuelo.llegadaMvd.t = vuelo.salidaPty.t
  /\ obs.tProg < vuelo.salidaPty.t
  /\ obs.estado = "Próximo"
  /\ RatEq(obs.prog, Cien)

\* the status a pill text or a pill class stands for
Denota(x) ==
  IF x \in {"Próximo", "En embarque", "pill--boarding"} THEN "Próximo"
  ELSE IF x \in {"En vuelo", "pill--en-vuelo"} THEN "En vuelo"
  ELSE "Llegó"

\* the bar width, in hundredths of a percent
Centesimas(w) == IF w.dec = 0 THEN 100 * w.val ELSE w.val

\* everything shown after the last tick is what instant t gives
Coherente(t) ==
  LET e == estado(vuelo, t)
      p == progreso(vuelo, t)
  IN  /\ "estadoVuelo" \in surfaces =>
           (Denota(dom.pillText) = e /\ Denota(dom.pillClass) = e)
      /\ "progresoVuelo" \in dom.written =>
           Centesimas(dom.barWidth[1]) =
             (IF e = "Próximo" THEN 0
              ELSE IF e = "En vuelo" THEN toFixed2(p).val ELSE 10000)
      /\ "plane" \in dom.written => dom.planeLeft = <<AvionLeft(p)>>
      /\ "nameLeft" \in dom.written => dom.nameLeft = <<NombreOffset(p)>>
      /\ "nameRight" \in dom.written => dom.nameRight = <<NombreOffset(p)>>
      /\ "factProg" \in dom.written => dom.factProg = <<MathRound(p)>>

\* C10, as stated: after a tick there is one instant t that all the values
\* shown are consistent with.  Stated for well-formed schedules.
C10_Claim ==
  (ticks > 0 /\ BienFormado) => \E t \in 0..MaxClock : Coherente(t)

====
